---- MODULE Spec2Model ----
(***************************************************************************)
(* A model of dags/challenge/news.py: the paged NewsAPI search generator,  *)
(* the grouping and CSV helpers, and the two job functions that the DAG    *)
(* (dags/tempus_challenge_dag.py) schedules.                               *)
(*                                                                         *)
(* Python strings are TLA+ strings and are built with \o as the code       *)
(* builds them.  Python's None is the value None below, which lies outside *)
(* every string domain of the model.  Lists are sequences.  A dict is a    *)
(* record [keys, val]: keys is the sequence of keys in insertion order,    *)
(* val the mapping.                                                        *)
(***************************************************************************)
EXTENDS Integers, Sequences, FiniteSets, TLC

VARIABLES
    pc,            \* position of the running driver (job function, test, helper)
    exc,           \* the exception that escaped the driver, or None
    g_id,          \* number of generator objects created so far
    g_state,       \* Python state of the live generator object
    g_at,          \* position of the generator's frame inside _paged_search
    g_args,        \* the arguments the generator function was called with
    articles,      \* _paged_search: local list `articles`
    current_page,  \* _paged_search: local `current_page`
    g_idx,         \* _paged_search: position of `for article in articles`
    outs,          \* outcome of every next() made on the live generator
    calls,         \* every call made on the remote search API, with its answer
    sources,       \* generate_headlines: local `sources`
    by_source,     \* stories_by_source: local `by_source`
    src_idx,       \* generate_headlines: position of `for source in by_source`
    terms,         \* search_news: argument `terms`
    t_idx,         \* search_news: position of `for term in terms`
    all_stories,   \* search_news: local `all_stories`
    stories,       \* argument `stories` of write_csv / stories_by_source (a list)
    s_idx,         \* position of `for story in stories`
    fh,            \* the open file handle (its path), or None
    files,         \* the file system: path -> [rows, closed]
    uploading,     \* the S3 uploads in progress: none, or one
    s3             \* every finished upload: <<filepath, bucket, key, body>>

vars == <<pc, exc, g_id, g_state, g_at, g_args, articles, current_page, g_idx,
          outs, calls, sources, by_source, src_idx, terms, t_idx, all_stories,
          stories, s_idx, fh, files, uploading, s3>>

genVars == <<g_id, g_state, g_at, g_args, articles, current_page, g_idx, outs, calls>>
jobVars == <<sources, by_source, src_idx, terms, t_idx, all_stories>>
csvVars == <<stories, s_idx, fh, files>>
s3Vars  == <<uploading, s3>>

-----------------------------------------------------------------------------
(* Bounds of the model. *)

\* The remote holds at most this many articles for all the searches of a run.
MaxResults == 3
\* Longest list handed to stories_by_source / write_csv when checked alone.
MaxStories == 3
\* search_news is handed the first n <= MaxTerms of the DAG's terms.
MaxTerms == 2
\* next() calls the test consumer still makes on a finished generator.
MaxLatePolls == 1

-----------------------------------------------------------------------------
(* Python values. *)

None == "<None>"

\* str(x) as an f-string / str.format renders it.
Str(x) == IF x = None THEN "None" ELSE x

\* Truthiness of an optional string.
Truthy(x) == x # None /\ x # ""

\* sep.join(xs)
RECURSIVE Join(_, _)
Join(sep, xs) ==
    IF xs = <<>> THEN ""
    ELSE IF Len(xs) = 1 THEN xs[1]
    ELSE xs[1] \o sep \o Join(sep, Tail(xs))

SeqsUpTo(S, n) == UNION {[1..k -> S] : k \in 0..n}

RECURSIVE Flatten(_)
Flatten(ss) == IF ss = <<>> THEN <<>> ELSE Head(ss) \o Flatten(Tail(ss))

EmptyDict == [keys |-> <<>>, val |-> <<>>]

Range(f) == {f[i] : i \in DOMAIN f}

-----------------------------------------------------------------------------
(* Articles. *)

Article(id, name, title, description) ==
    [source |-> [id |-> id, name |-> name], title |-> title,
     publishedAt |-> "now", url |-> "url", description |-> description]

\* What the remote's top-headlines operation has to serve.  One source has
\* no id, and one has the id that str(None) reads as.
HeadlineArticles ==
    { Article("None", "None Daily", "t1", None),
      Article("bar", "Bar Post", "t2", "Sample Description"),
      Article(None, "X", "t3", "") }

\* What the remote's full-text search has to serve: as the comment of lines
\* 132-136 says, some of it has a source name and no source id.
EverythingArticles ==
    { Article("bar", "Bar Post", "t2", "Sample Description"),
      Article(None, "X", "t3", "") }

-----------------------------------------------------------------------------
(* NewsApiClient._paged_search: a generator function. *)

PageSizeDefault == 100

\* top_stories(sources, language): the call it makes on _paged_search.
TopStoriesArgs(srcs, language) ==
    [top |-> TRUE, page_size |-> PageSizeDefault, language |-> language,
     query |-> None, sources |-> srcs]

\* search(query, sources, language): the call it makes on _paged_search.
SearchArgs(query, srcs, language) ==
    [top |-> FALSE, page_size |-> PageSizeDefault, language |-> language,
     query |-> query, sources |-> srcs]

\* Lines 56-59: the remote operation used.
SearchMethod(top) == IF top THEN "get_top_headlines" ELSE "get_everything"

(* The remote search API (newsapi.NewsApiClient): get_top_headlines and    *)
(* get_everything.  The answer to a request is the remote's choice: a page *)
(* of articles, possibly empty, or a NewsAPIException with a code.         *)

ErrorCodes == {"maximumResultsReached", "rateLimited"}

Served == Len(Flatten([i \in 1..Len(calls) |->
                  IF calls[i].resp.kind = "page" THEN calls[i].resp.articles ELSE <<>>]))

Responses(method) ==
    LET corpus == IF method = "get_top_headlines" THEN HeadlineArticles
                  ELSE EverythingArticles
    IN  {[kind |-> "page", articles |-> p] : p \in SeqsUpTo(corpus, MaxResults - Served)}
        \cup {[kind |-> "raise", code |-> c] : c \in ErrorCodes}

\* Lines 65-71: the request for page `page`.
Request(args, page) ==
    [method |-> SearchMethod(args.top), language |-> args.language, q |-> args.query,
     sources |-> Join(",", args.sources), page |-> page, page_size |-> args.page_size]

\* Variants of line 73: every code, or no code, taken for the result cap.
IsMaxResultsAny(code) == TRUE
IsMaxResultsNever(code) == FALSE
\* Line 73: the one code that ends the pagination quietly.
IsMaxResults(code) == code = "maximumResultsReached"

\* Line 79: articles.extend(page["articles"]).
Extend(buf, page) == buf \o page

\* Variant of line 80: the page number is not advanced.
NextPageStuck(p) == p
\* Line 80: current_page += 1.
NextPage(p) == p + 1

\* Variant of lines 63-85: the for loop nested in the while loop, so that
\* each page is yielded before the next is requested.
NextAtNested(at, more) ==
    IF at = "while" THEN (IF more THEN "for" ELSE "end") ELSE "while"
\* Control flow of lines 63-85: where the frame goes from `at`; `more` is
\* whether the while loop goes round again (a non-empty page) or breaks.
NextAt(at, more) ==
    IF at = "while" THEN (IF more THEN "while" ELSE "for") ELSE "end"

\* Calling the generator function runs none of its body.
GenCreate(args) ==
    /\ g_id' = g_id + 1
    /\ g_state' = "created"
    /\ g_at' = "start"
    /\ g_args' = args
    /\ articles' = <<>>
    /\ current_page' = 0
    /\ g_idx' = 0
    /\ outs' = <<>>
    /\ UNCHANGED calls

\* next(gen), as seen by the caller: resume the frame, or StopIteration at
\* once when the generator has finished.
GenResume ==
    /\ g_state \in {"created", "suspended", "finished"}
    /\ IF g_state = "finished"
       THEN /\ outs' = Append(outs, [kind |-> "StopIteration"])
            /\ UNCHANGED g_state
       ELSE /\ g_state' = "running"
            /\ UNCHANGED outs
    /\ UNCHANGED <<g_id, g_at, g_args, articles, current_page, g_idx, calls>>

\* Lines 51-62, run by the first next().
GenStart ==
    /\ g_state = "running" /\ g_at = "start"
    /\ articles' = <<>>
    /\ current_page' = 1
    /\ g_at' = "while"
    /\ UNCHANGED <<g_id, g_state, g_args, g_idx, outs, calls>>
    /\ UNCHANGED <<pc, exc, jobVars, csvVars, s3Vars>>

\* Lines 63-82: one turn of the while loop, the blocking request included.
GenRequest ==
    /\ g_state = "running" /\ g_at = "while"
    /\ \E resp \in Responses(SearchMethod(g_args.top)) :
        /\ calls' = Append(calls, [gen |-> g_id, req |-> Request(g_args, current_page),
                                   resp |-> resp])
        /\ IF resp.kind = "raise"
           THEN IF IsMaxResults(resp.code)
                THEN /\ g_at' = NextAt("while", FALSE)
                     /\ UNCHANGED <<g_state, outs, articles, current_page>>
                ELSE /\ g_state' = "finished"
                     /\ outs' = Append(outs, [kind |-> "raise", code |-> resp.code])
                     /\ UNCHANGED <<g_at, articles, current_page>>
           ELSE IF Len(resp.articles) # 0
                THEN /\ articles' = Extend(articles, resp.articles)
                     /\ current_page' = NextPage(current_page)
                     /\ g_at' = NextAt("while", TRUE)
                     /\ UNCHANGED <<g_state, outs>>
                ELSE /\ g_at' = NextAt("while", FALSE)
                     /\ UNCHANGED <<g_state, outs, articles, current_page>>
    \* entering `for article in articles` starts a fresh iteration of the list
    /\ g_idx' = IF g_at' = "for" THEN 1 ELSE g_idx
    /\ UNCHANGED <<g_id, g_args>>
    /\ UNCHANGED <<pc, exc, jobVars, csvVars, s3Vars>>

\* Lines 84-85: yield the next buffered article and suspend.
GenYield ==
    /\ g_state = "running" /\ g_at = "for"
    /\ g_idx <= Len(articles)
    /\ outs' = Append(outs, [kind |-> "item", item |-> articles[g_idx]])
    /\ g_idx' = g_idx + 1
    /\ g_state' = "suspended"
    /\ UNCHANGED <<g_id, g_at, g_args, articles, current_page, calls>>
    /\ UNCHANGED <<pc, exc, jobVars, csvVars, s3Vars>>

\* Line 84 with the list exhausted: leave the for loop.
GenDrained ==
    /\ g_state = "running" /\ g_at = "for"
    /\ g_idx > Len(articles)
    /\ g_at' = NextAt("for", FALSE)
    /\ UNCHANGED <<g_id, g_state, g_args, articles, current_page, g_idx, outs, calls>>
    /\ UNCHANGED <<pc, exc, jobVars, csvVars, s3Vars>>

\* Falling off the end of the function: the generator finishes, and the
\* pending next() raises StopIteration.
GenReturn ==
    /\ g_state = "running" /\ g_at = "end"
    /\ g_state' = "finished"
    /\ outs' = Append(outs, [kind |-> "StopIteration"])
    /\ UNCHANGED <<g_id, g_at, g_args, articles, current_page, g_idx, calls>>
    /\ UNCHANGED <<pc, exc, jobVars, csvVars, s3Vars>>

Gen == GenStart \/ GenRequest \/ GenYield \/ GenDrained \/ GenReturn

\* What the generator has yielded so far, in order.
Yielded ==
    LET its == SelectSeq(outs, LAMBDA o : o.kind = "item")
    IN  [i \in 1..Len(its) |-> its[i].item]

LastOut == outs[Len(outs)]

-----------------------------------------------------------------------------
(* The consumer of tests/unit/challenge/test_news.py: make one generator   *)
(* with top_stories or search and call next() on it.                       *)

Languages == {"en", None}
Queries == {"dummy"}
SourceLists == {<<>>, <<"foo">>, <<"foo", "bar">>}

TestTopStories ==
    /\ pc = "test"
    /\ \E srcs \in SourceLists, language \in Languages :
           GenCreate(TopStoriesArgs(srcs, language))
    /\ pc' = "test_next"
    /\ UNCHANGED <<exc, jobVars, csvVars, s3Vars>>

TestSearch ==
    /\ pc = "test"
    /\ \E query \in Queries, srcs \in SourceLists, language \in Languages :
           GenCreate(SearchArgs(query, srcs, language))
    /\ pc' = "test_next"
    /\ UNCHANGED <<exc, jobVars, csvVars, s3Vars>>

LatePolls ==
    Len(outs) - Len(Yielded) - 1

TestNext ==
    /\ pc = "test_next"
    /\ g_state = "finished" => LatePolls < MaxLatePolls
    /\ GenResume
    /\ UNCHANGED <<pc, exc, jobVars, csvVars, s3Vars>>

-----------------------------------------------------------------------------
(* What the DAG passes to the job functions (dags/tempus_challenge_dag.py). *)

TmpDir == "/tmp"
Bucket == "dummy-bucket"
\* context["ds"], the run date
Ds == "2018-04-01"
Terms == <<"Tempus Labs", "Eric Lefkosky", "cancer", "immunotherapy">>

\* os.path.join(tmpdir, name)
PathJoin(dir, name) == dir \o "/" \o name

-----------------------------------------------------------------------------
(* story_grade and write_csv. *)

\* What readability.getmeasures(text)["readability grades"]["Kincaid"] may do:
\* raise ValueError, or give a grade (here in thousandths).
Measures ==
    {[kind |-> "ValueError"]}
    \cup {[kind |-> "ok", kincaid |-> k] : k \in {8790, 12346}}

\* story_grade(story), in thousandths; m is what getmeasures does if called.
StoryGrade(story, m) ==
    IF Truthy(story.description)
    THEN (IF m.kind = "ValueError" THEN 0 ELSE m.kincaid)
    ELSE 0

\* "{0:.2f}".format(g) for g given in thousandths: round half to even.
Format2f(t) ==
    LET a == IF t < 0 THEN -t ELSE t
        q == a \div 10
        h == IF a % 10 > 5 \/ (a % 10 = 5 /\ q % 2 = 1) THEN q + 1 ELSE q
        frac == h % 100
    IN  (IF t < 0 THEN "-" ELSE "") \o ToString(h \div 100) \o "."
        \o (IF frac < 10 THEN "0" ELSE "") \o ToString(frac)

\* Variant of lines 137-139: the id with no fallback to the name.
CsvSourceIdNoFallback(story) == story.source.id
\* Lines 137-139: the first column of a row.
CsvSourceId(story) ==
    LET source_id == story.source.id
    IN  IF ~Truthy(source_id) \/ Len(source_id) = 0
        THEN story.source.name
        ELSE source_id

\* Lines 140-148: the tuple handed to writer.writerow.
Row(story, m) ==
    <<CsvSourceId(story), story.title, story.publishedAt, story.url,
      Format2f(StoryGrade(story, m))>>

\* csv.writer.writerow: None is written as the empty field, the line ends
\* with \r\n.  No field of the model's articles needs quoting.
CsvLine(row) ==
    Join(",", [i \in 1..Len(row) |-> IF row[i] = None THEN "" ELSE row[i]]) \o "\r\n"

NewFile == [lines |-> <<>>, closed |-> FALSE, opens |-> 1]

\* open(filepath, "w"): create or truncate.
OpenW(fs, path) ==
    IF path \in DOMAIN fs
    THEN [fs EXCEPT ![path] = [NewFile EXCEPT !.opens = fs[path].opens + 1]]
    ELSE (path :> NewFile) @@ fs

WritePcs == {"wc", "gh_write", "sn_write"}

\* Lines 131-148: one turn of `for story in stories`.
WriteRow ==
    /\ pc \in WritePcs
    /\ s_idx <= Len(stories)
    /\ \E m \in Measures :
           files' = [files EXCEPT ![fh].lines = Append(@, CsvLine(Row(stories[s_idx], m)))]
    /\ s_idx' = s_idx + 1
    /\ UNCHANGED <<pc, exc, genVars, jobVars, s3Vars, stories, fh>>

\* write_csv returns to the test that called it on a StringIO.
WcReturn ==
    /\ pc = "wc"
    /\ s_idx > Len(stories)
    /\ pc' = "wc_done"
    /\ UNCHANGED <<exc, genVars, jobVars, csvVars, s3Vars>>

\* write_csv returns and the `with open(...)` block of the job closes the file.
CloseFile ==
    /\ pc \in {"gh_write", "sn_write"}
    /\ s_idx > Len(stories)
    /\ files' = [files EXCEPT ![fh].closed = TRUE]
    /\ fh' = None
    /\ pc' = IF pc = "gh_write" THEN "gh_upload" ELSE "sn_upload"
    /\ UNCHANGED <<exc, genVars, jobVars, s3Vars, stories, s_idx>>

-----------------------------------------------------------------------------
(* upload_news: s3.upload_file(filepath, bucket, key), a blocking call that *)
(* ends well or raises.                                                     *)

UploadErrors == {"S3UploadFailedError"}

\* Variant: the exception of upload_news caught inside the job.
UploadRaisedCaught(job) == IF job = "gh" THEN "gh_next" ELSE "done"
\* Where the job goes when upload_news raises: nothing catches it.
UploadRaised(job) == "failed"

UploadBegin(filepath, bucket, key) ==
    uploading' = {[filepath |-> filepath, bucket |-> bucket, key |-> key]}

\* The upload in progress.
TheUpload == CHOOSE u \in uploading : TRUE

UploadEnd ==
    /\ pc \in {"gh_uploading", "sn_uploading"}
    /\ LET job == IF pc = "gh_uploading" THEN "gh" ELSE "sn"
       IN  \/ /\ s3' = Append(s3, [filepath |-> TheUpload.filepath,
                                   bucket |-> TheUpload.bucket, key |-> TheUpload.key,
                                   body |-> files[TheUpload.filepath].lines])
              /\ pc' = IF job = "gh" THEN "gh_next" ELSE "done"
              /\ UNCHANGED exc
           \/ /\ \E e \in UploadErrors : exc' = e
              /\ pc' = UploadRaised(job)
              /\ UNCHANGED s3
    /\ uploading' = {}
    /\ UNCHANGED <<genVars, jobVars, csvVars>>

-----------------------------------------------------------------------------
(* stories_by_source. *)

\* Variant: the story put at the front of its list.
DictAppendFront(d, key, story) ==
    IF key \in Range(d.keys)
    THEN [d EXCEPT !.val[key] = <<story>> \o @]
    ELSE [keys |-> Append(d.keys, key), val |-> (key :> <<story>>) @@ d.val]
\* by_source[key].append(story) on a defaultdict(list).
DictAppend(d, key, story) ==
    IF key \in Range(d.keys)
    THEN [d EXCEPT !.val[key] = Append(@, story)]
    ELSE [keys |-> Append(d.keys, key), val |-> (key :> <<story>>) @@ d.val]

\* Lines 173-174.
BySourceAdd(d, story) == DictAppend(d, story.source.id, story)

\* Lines 172-174 over a list, as the unit test calls it.
SbsStep ==
    /\ pc = "sbs"
    /\ s_idx <= Len(stories)
    /\ by_source' = BySourceAdd(by_source, stories[s_idx])
    /\ s_idx' = s_idx + 1
    /\ UNCHANGED <<pc, exc, genVars, s3Vars, stories, fh, files>>
    /\ UNCHANGED <<sources, src_idx, terms, t_idx, all_stories>>

\* Line 175.
SbsReturn ==
    /\ pc = "sbs"
    /\ s_idx > Len(stories)
    /\ pc' = "sbs_done"
    /\ UNCHANGED <<exc, genVars, jobVars, csvVars, s3Vars>>

-----------------------------------------------------------------------------
(* generate_headlines. *)

\* What the remote's get_sources may answer: a catalogue, or an error.
Catalogues ==
    { <<>>, <<[id |-> "foo", name |-> "Foo News"]>>,
      <<[id |-> "foo", name |-> "Foo News"], [id |-> "bar", name |-> "Bar Post"]>> }

\* get_sources: the ids of the catalogue, in order.
GetSources(catalogue) == [i \in 1..Len(catalogue) |-> catalogue[i].id]

\* Lines 193-194 and 201: the names of a source's file and of its S3 key.
HeadlinesFilename == Ds \o "_top_headlines.csv"
HeadlinesFilepath(source) == PathJoin(TmpDir, Str(source) \o "_" \o HeadlinesFilename)
\* Variant of line 201: the key without the source prefix.
HeadlinesKeyFlat(source) == HeadlinesFilename
HeadlinesKey(source) == Str(source) \o "/" \o HeadlinesFilename

\* Lines 184-187.
GhGetSources ==
    /\ pc = "gh_start"
    /\ \/ \E c \in Catalogues :
              /\ sources' = GetSources(c)
              /\ pc' = "gh_top"
              /\ UNCHANGED exc
       \/ /\ exc' = "rateLimited"
          /\ pc' = "failed"
          /\ UNCHANGED sources
    /\ UNCHANGED <<genVars, csvVars, s3Vars, by_source, src_idx, terms, t_idx, all_stories>>

\* Line 188, and the entry of stories_by_source (line 171).
GhTopStories ==
    /\ pc = "gh_top"
    /\ GenCreate(TopStoriesArgs(sources, "en"))
    /\ by_source' = EmptyDict
    /\ pc' = "gh_group"
    /\ UNCHANGED <<exc, csvVars, s3Vars, sources, src_idx, terms, t_idx, all_stories>>

\* Line 172: `for story in stories` asks the generator for the next story.
GhGroupNext ==
    /\ pc = "gh_group"
    /\ GenResume
    /\ pc' = "gh_group_wait"
    /\ UNCHANGED <<exc, jobVars, csvVars, s3Vars>>

\* Lines 172-175 and 189: what stories_by_source does with the outcome.
GhGroupGot ==
    /\ pc = "gh_group_wait"
    /\ g_state \in {"suspended", "finished"}
    /\ CASE LastOut.kind = "item" ->
                /\ by_source' = BySourceAdd(by_source, LastOut.item)
                /\ pc' = "gh_group"
                /\ UNCHANGED <<exc, src_idx>>
         [] LastOut.kind = "StopIteration" ->
                /\ pc' = "gh_loop"
                /\ src_idx' = 1
                /\ UNCHANGED <<exc, by_source>>
         [] LastOut.kind = "raise" ->
                /\ pc' = "failed"
                /\ exc' = LastOut.code
                /\ UNCHANGED <<by_source, src_idx>>
    /\ UNCHANGED <<genVars, csvVars, s3Vars, sources, terms, t_idx, all_stories>>

\* Lines 191-197: the next source, its file opened for writing, write_csv entered.
GhOpen ==
    /\ pc = "gh_loop"
    /\ src_idx <= Len(by_source.keys)
    /\ LET source == by_source.keys[src_idx]
       IN  /\ files' = OpenW(files, HeadlinesFilepath(source))
           /\ fh' = HeadlinesFilepath(source)
           /\ stories' = by_source.val[source]
    /\ s_idx' = 1
    /\ pc' = "gh_write"
    /\ UNCHANGED <<exc, genVars, jobVars, s3Vars>>

\* Lines 198-201: upload_news is called.
GhUpload ==
    /\ pc = "gh_upload"
    /\ LET source == by_source.keys[src_idx]
       IN  UploadBegin(HeadlinesFilepath(source), Bucket, HeadlinesKey(source))
    /\ pc' = "gh_uploading"
    /\ UNCHANGED <<exc, genVars, jobVars, csvVars, s3>>

\* Line 202 and back to line 191.
GhNextSource ==
    /\ pc = "gh_next"
    /\ src_idx' = src_idx + 1
    /\ pc' = "gh_loop"
    /\ UNCHANGED <<exc, genVars, csvVars, s3Vars, sources, by_source, terms, t_idx, all_stories>>

\* Line 191 with every source done: the function returns.
GhReturn ==
    /\ pc = "gh_loop"
    /\ src_idx > Len(by_source.keys)
    /\ pc' = "done"
    /\ UNCHANGED <<exc, genVars, jobVars, csvVars, s3Vars>>

-----------------------------------------------------------------------------
(* search_news. *)

\* Lines 217-218 and 227.
SearchFilename == Ds \o "_combined_search.csv"
SearchFilepath == PathJoin(TmpDir, SearchFilename)

\* Variant of line 222: a story already in the list is dropped.
ExtendUnique(list, story) == IF story \in Range(list) THEN list ELSE Append(list, story)
\* Line 222: all_stories.extend(...) takes the stories one by one.
ExtendOne(list, story) == Append(list, story)

\* Lines 216-219.
SnStart ==
    /\ pc = "sn_start"
    /\ all_stories' = <<>>
    /\ t_idx' = 1
    /\ pc' = "sn_loop"
    /\ UNCHANGED <<exc, genVars, csvVars, s3Vars, sources, by_source, src_idx, terms>>

\* Lines 220-222: the next term's search is made.
SnSearch ==
    /\ pc = "sn_loop"
    /\ t_idx <= Len(terms)
    /\ GenCreate(SearchArgs(terms[t_idx], <<>>, None))
    /\ pc' = "sn_extend"
    /\ UNCHANGED <<exc, jobVars, csvVars, s3Vars>>

\* Line 222: extend asks the generator for the next story.
SnExtendNext ==
    /\ pc = "sn_extend"
    /\ GenResume
    /\ pc' = "sn_extend_wait"
    /\ UNCHANGED <<exc, jobVars, csvVars, s3Vars>>

\* Line 222: what extend does with the outcome.
SnExtendGot ==
    /\ pc = "sn_extend_wait"
    /\ g_state \in {"suspended", "finished"}
    /\ CASE LastOut.kind = "item" ->
                /\ all_stories' = ExtendOne(all_stories, LastOut.item)
                /\ pc' = "sn_extend"
                /\ UNCHANGED <<exc, t_idx>>
         [] LastOut.kind = "StopIteration" ->
                /\ t_idx' = t_idx + 1
                /\ pc' = "sn_loop"
                /\ UNCHANGED <<exc, all_stories>>
         [] LastOut.kind = "raise" ->
                /\ pc' = "failed"
                /\ exc' = LastOut.code
                /\ UNCHANGED <<all_stories, t_idx>>
    /\ UNCHANGED <<genVars, csvVars, s3Vars, sources, by_source, src_idx, terms>>

\* Lines 223-225: the combined file opened for writing, write_csv entered.
SnOpen ==
    /\ pc = "sn_loop"
    /\ t_idx > Len(terms)
    /\ files' = OpenW(files, SearchFilepath)
    /\ fh' = SearchFilepath
    /\ stories' = all_stories
    /\ s_idx' = 1
    /\ pc' = "sn_write"
    /\ UNCHANGED <<exc, genVars, jobVars, s3Vars>>

\* Lines 226-227: upload_news is called.
SnUpload ==
    /\ pc = "sn_upload"
    /\ UploadBegin(SearchFilepath, Bucket, SearchFilename)
    /\ pc' = "sn_uploading"
    /\ UNCHANGED <<exc, genVars, jobVars, csvVars, s3>>

-----------------------------------------------------------------------------
(* Specifications. *)

\* No generator made, no job local set, nothing uploaded.
InitBase ==
    /\ exc = None
    /\ g_id = 0 /\ g_state = "none" /\ g_at = "start" /\ g_args = None
    /\ articles = <<>> /\ current_page = 0 /\ g_idx = 0
    /\ outs = <<>> /\ calls = <<>>
    /\ sources = <<>> /\ by_source = EmptyDict /\ src_idx = 0
    /\ t_idx = 0 /\ all_stories = <<>>
    /\ uploading = {} /\ s3 = <<>>

\* ... and no file written yet.
InitCommon == InitBase /\ fh = None /\ files = <<>>

\* One generator made and polled, as the unit tests do.
InitPaged == pc = "test" /\ terms = <<>> /\ stories = <<>> /\ s_idx = 0 /\ InitCommon
NextPaged == TestTopStories \/ TestSearch \/ TestNext \/ Gen
SpecPaged == InitPaged /\ [][NextPaged]_vars

\* stories_by_source on a list.
GroupArticles ==
    {Article(id, name, title, None) :
        id \in {None, "", "foo", "bar"}, name \in {"X", ""}, title \in {"story1", "story2"}}
InitGroup ==
    /\ pc = "sbs" /\ terms = <<>> /\ s_idx = 1 /\ InitCommon
    /\ stories \in SeqsUpTo(GroupArticles, MaxStories)
NextGroup == SbsStep \/ SbsReturn
SpecGroup == InitGroup /\ [][NextGroup]_vars

\* write_csv on a list and an in-memory file.
CsvArticles ==
    {Article(id, "sourcename", "headlines", d) :
        id \in {None, "", "sourceid"}, d \in {None, "", "Sample Description", "..."}}
StringIO == "<StringIO>"
InitCsv ==
    /\ pc = "wc" /\ terms = <<>> /\ s_idx = 1 /\ InitBase
    /\ fh = StringIO /\ files = (StringIO :> NewFile)
    /\ stories \in SeqsUpTo(CsvArticles, MaxStories)
NextCsv == WriteRow \/ WcReturn
SpecCsv == InitCsv /\ [][NextCsv]_vars

\* One run of generate_headlines.
InitHeadlines == pc = "gh_start" /\ terms = <<>> /\ stories = <<>> /\ s_idx = 0 /\ InitCommon
NextHeadlines ==
    \/ GhGetSources \/ GhTopStories \/ GhGroupNext \/ Gen \/ GhGroupGot
    \/ GhOpen \/ WriteRow \/ CloseFile \/ GhUpload \/ UploadEnd \/ GhNextSource \/ GhReturn
SpecHeadlines == InitHeadlines /\ [][NextHeadlines]_vars

\* One run of search_news.
InitSearch ==
    /\ pc = "sn_start" /\ stories = <<>> /\ s_idx = 0 /\ InitCommon
    /\ \E n \in 0..MaxTerms : terms = SubSeq(Terms, 1, n)
NextSearch ==
    \/ SnStart \/ SnSearch \/ SnExtendNext \/ Gen \/ SnExtendGot
    \/ SnOpen \/ WriteRow \/ CloseFile \/ SnUpload \/ UploadEnd
SpecSearch == InitSearch /\ [][NextSearch]_vars

-----------------------------------------------------------------------------
(* Properties of _paged_search, checked under SpecPaged. *)

IsPage(r) == r.kind = "page"
IsFullPage(r) == r.kind = "page" /\ Len(r.articles) > 0
IsEmptyPage(r) == r.kind = "page" /\ Len(r.articles) = 0
IsMax(r) == r.kind = "raise" /\ r.code = "maximumResultsReached"
IsOtherError(r) == r.kind = "raise" /\ r.code # "maximumResultsReached"

\* The articles of the pages the remote has served, in the order served.
ServedArticles ==
    Flatten([i \in 1..Len(calls) |->
                 IF IsPage(calls[i].resp) THEN calls[i].resp.articles ELSE <<>>])

\* The articles of the pages served before the last request.
ServedBeforeLast ==
    Flatten([i \in 1..Len(calls) - 1 |->
                 IF IsPage(calls[i].resp) THEN calls[i].resp.articles ELSE <<>>])

IsPrefix(s, t) == Len(s) <= Len(t) /\ \A i \in 1..Len(s) : s[i] = t[i]

\* The last request was answered `last`, every one before it with a non-empty page.
PagesThen(last(_)) ==
    /\ Len(calls) > 0
    /\ last(calls[Len(calls)].resp)
    /\ \A i \in 1..Len(calls) - 1 : IsFullPage(calls[i].resp)

Raised == SelectSeq(outs, LAMBDA o : o.kind = "raise")

\* The first outcome of a next() that is not an article, if there is one.
FirstEnd ==
    LET ends == SelectSeq(outs, LAMBDA o : o.kind # "item")
    IN  IF ends = <<>> THEN [kind |-> "none"] ELSE ends[1]

\* C1: when the remote answers n >= 0 non-empty pages and then an empty page,
\* the requests are pages 1, 2, ..., n+1 in that order, once each, all with the
\* page_size and filters of the call; no request follows the empty page; the
\* articles yielded are a prefix of the pages' concatenation, and all of it,
\* followed by StopIteration and by no error, once the generator has finished.
C1_PagedConcat ==
    /\ \A i \in 1..Len(calls) :
           /\ calls[i].req = Request(g_args, calls[i].req.page)
           /\ (\A j \in 1..i - 1 : IsFullPage(calls[j].resp)) => calls[i].req.page = i
           /\ IsEmptyPage(calls[i].resp) => i = Len(calls)
    /\ PagesThen(IsEmptyPage) =>
           /\ IsPrefix(Yielded, ServedArticles)
           /\ Raised = <<>>
           /\ g_state = "finished" =>
                  /\ Yielded = ServedArticles
                  /\ FirstEnd = [kind |-> "StopIteration"]
                  /\ outs[Len(Yielded) + 1] = [kind |-> "StopIteration"]

C1_Witness ==
    /\ PagesThen(IsEmptyPage)
    /\ Len(calls) = 3
    /\ g_state = "finished"
    /\ Len(Yielded) = 3
    /\ Yielded[1] # Yielded[2]

\* C2 as claimed: by the time page N+1 is requested, every article of pages
\* 1..N has been yielded to the consumer.
C2_RequestAfterConsumed ==
    Len(calls) >= 2 => IsPrefix(ServedBeforeLast, Yielded)

\* C2 as amended: nothing is requested before the first next(); no outcome
\* reaches the consumer while the page loop is still running, so every
\* request precedes the first yielded article and none follows it.
C2_FetchAllThenYield ==
    /\ g_state = "created" => calls = <<>>
    /\ Len(outs) > 0 =>
           /\ g_at \in {"for", "end"} \/ Raised # <<>>
           /\ ~IsFullPage(calls[Len(calls)].resp)
    /\ IsPrefix(Yielded, ServedArticles)

C2_Witness ==
    /\ g_state = "suspended"
    /\ Len(Yielded) = 1
    /\ Len(calls) = 3
    /\ IsFullPage(calls[2].resp)

\* C3: when the request for page k is answered maximumResultsReached (pages
\* 1..k-1 being non-empty pages), no further request is made, nothing is
\* raised to the consumer, the articles yielded are a prefix of pages 1..k-1
\* and, once the generator has finished, exactly those, followed by
\* StopIteration.
C3_MaxResultsEndsQuietly ==
    /\ \A i \in 1..Len(calls) : IsMax(calls[i].resp) => i = Len(calls)
    /\ PagesThen(IsMax) =>
           /\ calls[Len(calls)].req.page = Len(calls)
           /\ Raised = <<>>
           /\ g_state # "finished" => g_at \in {"for", "end"}
           /\ IsPrefix(Yielded, ServedArticles)
           /\ g_state = "finished" =>
                  /\ Yielded = ServedArticles
                  /\ FirstEnd = [kind |-> "StopIteration"]

C3_Witness ==
    /\ PagesThen(IsMax)
    /\ Len(calls) = 2
    /\ g_state = "finished"
    /\ Len(Yielded) = 2

C3_WitnessFirst ==
    /\ PagesThen(IsMax)
    /\ Len(calls) = 1
    /\ outs = <<[kind |-> "StopIteration"]>>

\* C4: when a request is answered with any other API error, the generator
\* has finished by raising that error: no further request is made, the error
\* with its code is the one exception the consumer gets, and it comes before
\* any StopIteration; raised by the first request, it is the outcome of the
\* first next().
C4_OtherErrorsPropagate ==
    /\ \A i \in 1..Len(calls) : IsOtherError(calls[i].resp) => i = Len(calls)
    /\ PagesThen(IsOtherError) =>
           /\ g_state = "finished"
           /\ Raised = <<[kind |-> "raise", code |-> calls[Len(calls)].resp.code]>>
           /\ FirstEnd = Raised[1]
           /\ Len(calls) = 1 => outs[1] = Raised[1]
    /\ Raised # <<>> => PagesThen(IsOtherError)

C4_Witness ==
    /\ PagesThen(IsOtherError)
    /\ Len(calls) = 2
    /\ Len(outs) = 1

-----------------------------------------------------------------------------
(* Properties of stories_by_source, checked under SpecGroup. *)

\* The Source Identifier of a source record: its id, or its name when the id
\* is null or the empty string.
ResolvedSourceId(src) == IF src.id = None \/ src.id = "" THEN src.name ELSE src.id

\* The stories that stories_by_source has filed so far.
Filed == SubSeq(stories, 1, s_idx - 1)

Group(i) == by_source.val[by_source.keys[i]]

\* C5: every story is filed under its resolved Source Identifier, so no key
\* is null or empty when every story filed has a non-empty name.
C5_KeyedByResolvedId ==
    /\ \A i \in 1..Len(by_source.keys) : \A j \in 1..Len(Group(i)) :
           by_source.keys[i] = ResolvedSourceId(Group(i)[j].source)
    /\ (\A n \in 1..Len(Filed) : Filed[n].source.name \notin {None, ""})
           => \A i \in 1..Len(by_source.keys) : by_source.keys[i] \notin {None, ""}

\* Where the first story of group i first occurs among the stories filed.
FirstSeen(i) ==
    CHOOSE n \in 1..Len(Filed) :
        /\ Filed[n] = Group(i)[1]
        /\ \A m \in 1..n - 1 : Filed[m] # Group(i)[1]

\* C6: the groups partition the stories filed: the keys are distinct, no
\* group is empty, every story filed is in some group, no story is in two
\* groups, each group is the stories filed that belong to it, as often and in
\* the order they arrived, and the keys are in order of first occurrence.
C6_GroupsPartitionInput ==
    LET n == Len(by_source.keys)
    IN  /\ DOMAIN by_source.val = Range(by_source.keys)
        /\ \A i, j \in 1..n : i # j => by_source.keys[i] # by_source.keys[j]
        /\ \A i \in 1..n : Group(i) # <<>>
        /\ \A i \in 1..n :
               Group(i) = SelectSeq(Filed, LAMBDA a : a \in Range(Group(i)))
        /\ \A i, j \in 1..n : i # j => Range(Group(i)) \cap Range(Group(j)) = {}
        /\ \A m \in 1..Len(Filed) : \E i \in 1..n : Filed[m] \in Range(Group(i))
        /\ \A i, j \in 1..n : i < j => FirstSeen(i) < FirstSeen(j)
        /\ pc = "sbs_done" => Filed = stories

C6_Witness ==
    /\ pc = "sbs_done"
    /\ Len(stories) = 3
    /\ Len(by_source.keys) = 2
    /\ Group(1) = <<stories[1], stories[3]>>
    /\ stories[1] # stories[3]
    /\ Group(2) = <<stories[2]>>

-----------------------------------------------------------------------------
(* Properties of write_csv, checked under SpecCsv. *)

\* The grades of Measures, and 0.0, to two decimal places.
TwoDecimals == {"0.00", "8.79", "12.35"}

\* `line` is the CSV row of `story`: source id, title, publishedAt, url, grade.
LineOf(line, story) ==
    \E g \in TwoDecimals :
        /\ line = ResolvedSourceId(story.source) \o "," \o story.title \o ","
                  \o story.publishedAt \o "," \o story.url \o "," \o g \o "\r\n"
        /\ story.description \in {None, ""} => g = "0.00"

\* C7: the file holds one row per story written so far, in the stories'
\* order and with nothing before the first; each row is the source id (the
\* name when the id is null or empty), title, publishedAt, url and the grade
\* to two decimals, 0.00 for a story with no description or an empty one;
\* when write_csv returns every story has its row.
C7_OneRowPerStory ==
    LET lines == files[StringIO].lines
    IN  /\ Len(lines) = s_idx - 1
        /\ \A i \in 1..Len(lines) : LineOf(lines[i], stories[i])
        /\ pc = "wc_done" => Len(lines) = Len(stories)

C7_Witness ==
    /\ pc = "wc_done"
    /\ Len(stories) = 3
    /\ stories[1].source.id = None
    /\ stories[2].source.id = ""
    /\ stories[3].source.id = "sourceid"
    /\ files[StringIO].lines[1] = "sourcename,headlines,now,url,0.00\r\n"
    /\ files[StringIO].lines[3] = "sourceid,headlines,now,url,8.79\r\n"

-----------------------------------------------------------------------------
(* Properties of generate_headlines, checked under SpecHeadlines. *)

AllClosed == \A p \in DOMAIN files : files[p].closed

\* How often a file has been opened for writing, over all files.
RECURSIVE OpensOf(_)
OpensOf(paths) ==
    IF paths = {} THEN 0
    ELSE LET p == CHOOSE q \in paths : TRUE
         IN  files[p].opens + OpensOf(paths \ {p})
FilesOpened == OpensOf(DOMAIN files)

\* `lines` are the rows of `group`, story by story.
LinesOf(lines, group) ==
    /\ Len(lines) = Len(group)
    /\ \A j \in 1..Len(lines) : LineOf(lines[j], group[j])

\* C8: while an upload is in progress it is the upload of the current
\* source's file, <source>_<run_date>_top_headlines.csv in the working
\* directory, to the key <source>/<run_date>_top_headlines.csv; that file
\* holds the rows of the source's stories and is closed, no file is open, and
\* as many files have been opened as sources reached.  No upload is in
\* progress while a file is open.  When the run ends without a failure there
\* have been as many file openings as sources and, for every source in the
\* grouped collection's order, one upload: of that source's file, holding
\* that source's rows, to that source's key.
C8_WriteThenUpload ==
    LET path(source) == "/tmp/" \o Str(source) \o "_" \o Ds \o "_top_headlines.csv"
        key(source) == Str(source) \o "/" \o Ds \o "_top_headlines.csv"
        keys == by_source.keys
    IN  /\ uploading # {} =>
               /\ uploading = {[filepath |-> path(keys[src_idx]), bucket |-> Bucket,
                                key |-> key(keys[src_idx])]}
               /\ fh = None /\ AllClosed
               /\ LinesOf(files[TheUpload.filepath].lines, by_source.val[keys[src_idx]])
               /\ Len(s3) = src_idx - 1
               /\ FilesOpened = src_idx
        /\ fh # None => uploading = {}
        /\ pc = "done" =>
               /\ Len(s3) = Len(keys)
               /\ FilesOpened = Len(keys)
               /\ DOMAIN files = {path(keys[i]) : i \in 1..Len(keys)}
               /\ \A i \in 1..Len(keys) :
                      /\ s3[i].filepath = path(keys[i])
                      /\ s3[i].key = key(keys[i])
                      /\ s3[i].bucket = Bucket
                      /\ LinesOf(s3[i].body, by_source.val[keys[i]])

C8_Witness ==
    /\ pc = "done"
    /\ Len(by_source.keys) = 2
    /\ by_source.keys[1] = "bar"
    /\ Len(s3) = 2
    /\ s3[1].key = "bar/2018-04-01_top_headlines.csv"
    /\ s3[1].filepath = "/tmp/bar_2018-04-01_top_headlines.csv"
    /\ Len(s3[1].body) = 2

UploadFailed == pc = "failed" /\ exc \in UploadErrors

\* C10 as claimed: when the upload of one source's file has failed, a file
\* has been opened for every source of the grouped collection.
C10_LaterSourcesAttempted ==
    UploadFailed => FilesOpened = Len(by_source.keys)

\* C10 as amended: an exception ends the run as failed at once; when the
\* upload of a source's file has failed, the files opened are those of the
\* sources up to that one, one each, the uploads made are those of the
\* sources before it, one each, and nothing has been done for a later source.
C10_UploadFailureAborts ==
    /\ exc # None => pc = "failed"
    /\ UploadFailed =>
           /\ src_idx \in 1..Len(by_source.keys)
           /\ uploading = {} /\ fh = None
           /\ FilesOpened = src_idx
           /\ DOMAIN files = {HeadlinesFilepath(by_source.keys[i]) : i \in 1..src_idx}
           /\ Len(s3) = src_idx - 1
           /\ \A u \in 1..Len(s3) : s3[u].key = HeadlinesKey(by_source.keys[u])

C10_Witness ==
    /\ UploadFailed
    /\ Len(by_source.keys) = 3
    /\ src_idx = 2
    /\ Len(s3) = 1

-----------------------------------------------------------------------------
(* Properties of search_news, checked under SpecSearch. *)

\* The articles served to the generators 1..g, in the order served.
ServedUpTo(g) ==
    Flatten([i \in 1..Len(calls) |->
                 IF IsPage(calls[i].resp) /\ calls[i].gen <= g
                 THEN calls[i].resp.articles ELSE <<>>])

\* C9: the i-th generator is the full-text search for the i-th term, and the
\* requests are made generator after generator; when a search starts, the
\* searches before it have ended without an error and all they were served
\* is in all_stories, which holds the articles served, in the order served
\* and as often.  A file exists only once the last search has finished: it is
\* <run_date>_combined_search.csv, opened once, and holds a row for each
\* story of all_stories in order.  An upload is of that file, closed and
\* complete, to the key <run_date>_combined_search.csv, and the run has ended
\* well exactly when that one upload has been made.
C9_CombinedSearch ==
    LET path == "/tmp/" \o Ds \o "_combined_search.csv"
        key == Ds \o "_combined_search.csv"
    IN  /\ g_id <= Len(terms)
        /\ \A i \in 1..Len(calls) :
               /\ calls[i].gen \in 1..g_id
               /\ calls[i].req.method = "get_everything"
               /\ calls[i].req.q = terms[calls[i].gen]
               /\ calls[i].gen < g_id => ~IsOtherError(calls[i].resp)
        /\ \A i, j \in 1..Len(calls) : i < j => calls[i].gen <= calls[j].gen
        /\ \A g \in 1..g_id - 1 : \E i \in 1..Len(calls) : calls[i].gen = g
        /\ IsPrefix(ServedUpTo(g_id - 1), all_stories)
        /\ IsPrefix(all_stories, ServedArticles)
        /\ DOMAIN files # {} =>
               /\ DOMAIN files = {path}
               /\ files[path].opens = 1
               /\ g_id = Len(terms) /\ t_idx = Len(terms) + 1
               /\ g_state \in {"none", "finished"}
               /\ all_stories = ServedArticles
               /\ Len(files[path].lines) <= Len(all_stories)
               /\ \A i \in 1..Len(files[path].lines) :
                      LineOf(files[path].lines[i], all_stories[i])
               /\ files[path].closed => Len(files[path].lines) = Len(all_stories)
        /\ uploading # {} =>
               /\ uploading = {[filepath |-> path, bucket |-> Bucket, key |-> key]}
               /\ path \in DOMAIN files /\ files[path].closed
               /\ s3 = <<>>
        /\ Len(s3) <= 1
        /\ pc = "done" <=> Len(s3) = 1
        /\ Len(s3) = 1 =>
               s3[1] = [filepath |-> path, bucket |-> Bucket, key |-> key,
                        body |-> files[path].lines]

C9_Witness ==
    /\ pc = "done"
    /\ terms = <<"Tempus Labs", "Eric Lefkosky">>
    /\ Len(all_stories) = 3
    /\ all_stories[1] = all_stories[3]
    /\ calls[1].gen = 1 /\ IsFullPage(calls[1].resp)
    /\ calls[Len(calls)].gen = 2
    /\ Len(s3[1].body) = 3

====
